---- MODULE Spec2Model ----
(***************************************************************************)
(* A model of adex/helpers.py: the gene-set operations, the frequency      *)
(* filter and the pre-processing pipeline (get_pre_processed_dataset with  *)
(* its helpers _keep_only_selected_genes and _keep_only_selected_samples). *)
(*                                                                         *)
(* A dataframe is a record [cols, rows]: cols is the sequence of the names *)
(* of the non-key columns, rows the sequence of rows, a row being          *)
(* [gene |-> key, cells |-> one cell per name of cols].  A cell is Null or *)
(* an expression value.  Fractions (null percentages, thresholds) are      *)
(* exact rationals [num, den], compared by cross-multiplication; inf is    *)
(* the quotient of a division of 1 by 0 in 64-bit floating point.          *)
(***************************************************************************)
EXTENDS Integers, Sequences, FiniteSets, TLC

VARIABLES
    dataframes,               \* List[DataFrame], the argument of the gene-set operations
    allowed_null_percentage,  \* the threshold argument, a rational [num, den]
    drop_frequencies_column,  \* argument of high_frequency_genes_dataframe
    call,                     \* the operation that has run ("none" before any)
    ret,                      \* what the operation returned: [kind, value]
    input,                    \* _keep_only_selected_genes: the input dataframe
    genes,                    \* _keep_only_selected_genes: the requested genes
    data_loader,              \* get_pre_processed_dataset: the selector
    return_metadata,          \* get_pre_processed_dataset: the flag
    files,                    \* the parquet files under {data_path}/{condition.name}
    pc,                       \* get_pre_processed_dataset: the next step to run
    data,                     \* List[DataFrame] loaded (lines 120-124)
    transposed_fixed,         \* the sample-by-gene table (lines 140-151)
    datasets_info,            \* pl.read_csv(datasets_info_path) (line 154)
    metadata,                 \* pl.read_csv(metadata_path) (line 157)
    joined_w_metadata,        \* transposed_fixed_w_metadata as bound at line 156
    transposed_fixed_w_metadata  \* its current binding (lines 168-196)

geneVars == <<dataframes, drop_frequencies_column, call>>
selectVars == <<input, genes>>
pipeVars == <<data_loader, return_metadata, files, pc, data, transposed_fixed,
              datasets_info, metadata, joined_w_metadata, transposed_fixed_w_metadata>>
vars == <<geneVars, selectVars, pipeVars, allowed_null_percentage, ret>>

-----------------------------------------------------------------------------
(* Bounds and input domains *)

MaxTables == 3
MaxRows == 2

Null == "null"
Genes == {"A", "B"}
Values == {"1.0"}
SampleNames == <<"S1", "S2", "S3", "S4", "S5", "S6", "S7", "S8">>

Thresholds ==
    { [num |-> 0, den |-> 1], [num |-> 1, den |-> 5],
      [num |-> 1, den |-> 2], [num |-> 1, den |-> 1] }

SeqsUpTo(S, n) == UNION { [1..k -> S] : k \in 0..n }

\* The per-sample tables named `name` whose cells are drawn from `cellset`.
TablesOver(name, cellset) ==
    { [cols |-> <<name>>, rows |-> rs] :
        rs \in SeqsUpTo({ [gene |-> g, cells |-> <<c>>] : g \in Genes, c \in cellset }, MaxRows) }

\* The non-empty lists of at most MaxTables tables; table i holds sample column i.
TableLists(cellset) ==
    UNION { { l \in [1..n -> UNION { TablesOver(SampleNames[i], cellset) : i \in 1..n }] :
                \A i \in 1..n : l[i].cols = <<SampleNames[i]>> } : n \in 1..MaxTables }

-----------------------------------------------------------------------------
(* Dataframe primitives (polars) as the code uses them *)

RECURSIVE Flatten(_)
Flatten(ss) == IF ss = <<>> THEN <<>> ELSE Head(ss) \o Flatten(Tail(ss))

Range(s) == { s[i] : i \in 1..Len(s) }

Nulls(n) == [i \in 1..n |-> Null]

\* df.select("gene").to_series().to_list()
GeneColumn(df) == [i \in 1..Len(df.rows) |-> df.rows[i].gene]

\* The rows of `right` that join row l, each glued to l's cells.
Matches(l, right) ==
    LET hit == SelectSeq(right.rows, LAMBDA r : r.gene = l.gene)
    IN  [j \in 1..Len(hit) |-> [gene |-> l.gene, cells |-> l.cells \o hit[j].cells]]

\* left.join(right, on="gene", how="inner")
InnerJoin(left, right) ==
    [cols |-> left.cols \o right.cols,
     rows |-> Flatten([i \in 1..Len(left.rows) |-> Matches(left.rows[i], right)])]

\* left.join(right, on="gene", how="outer_coalesce")
OuterCoalesceJoin(left, right) ==
    LET leftPart ==
            Flatten([i \in 1..Len(left.rows) |->
                LET m == Matches(left.rows[i], right)
                IN  IF m = <<>>
                    THEN << [gene  |-> left.rows[i].gene,
                             cells |-> left.rows[i].cells \o Nulls(Len(right.cols))] >>
                    ELSE m])
        lonely == SelectSeq(right.rows,
                            LAMBDA r : \A i \in 1..Len(left.rows) : left.rows[i].gene # r.gene)
        rightPart ==
            [j \in 1..Len(lonely) |->
                [gene |-> lonely[j].gene, cells |-> Nulls(Len(left.cols)) \o lonely[j].cells]]
    IN  [cols |-> left.cols \o right.cols, rows |-> leftPart \o rightPart]

\* reduce(lambda left, right: left.join(right, on="gene", how="inner"), tail, head)
RECURSIVE ReduceInner(_, _)
ReduceInner(tail, acc) ==
    IF tail = <<>> THEN acc ELSE ReduceInner(Tail(tail), InnerJoin(acc, Head(tail)))

\* reduce(lambda left, right: left.join(right, on="gene", how="outer_coalesce"), tail, head)
RECURSIVE ReduceOuter(_, _)
ReduceOuter(tail, acc) ==
    IF tail = <<>> THEN acc ELSE ReduceOuter(Tail(tail), OuterCoalesceJoin(acc, Head(tail)))

-----------------------------------------------------------------------------
(* gene_intersection *)

\* One iteration of the loop body: seed when the running set is empty, else intersect.
GeneIntersectionStep(common_genes, df) ==
    IF Cardinality(common_genes) = 0
    THEN common_genes \cup Range(GeneColumn(df))
    ELSE common_genes \cap Range(GeneColumn(df))

RECURSIVE GeneIntersectionLoop(_, _)
GeneIntersectionLoop(dfs, common_genes) ==
    IF dfs = <<>> THEN common_genes
    ELSE GeneIntersectionLoop(Tail(dfs), GeneIntersectionStep(common_genes, Head(dfs)))

gene_intersection(dfs) == GeneIntersectionLoop(dfs, {})

-----------------------------------------------------------------------------
(* common_genes_dataframe *)

\* The reduction run with the coalescing outer join in place of the inner join.
CommonGenesOuterJoin(dfs) == ReduceOuter(Tail(dfs), Head(dfs))

common_genes_dataframe(dfs) == ReduceInner(Tail(dfs), Head(dfs))

-----------------------------------------------------------------------------
(* high_frequency_genes_dataframe *)

\* pl.col(c).count(): the number of non-null cells of column c (an aggregate
\* over the whole column, broadcast to every row)
ColumnCount(df, c) == Cardinality({ i \in 1..Len(df.rows) : df.rows[i].cells[c] # Null })

RECURSIVE Product(_, _)
Product(f, S) ==
    IF S = {} THEN 1 ELSE LET x == CHOOSE y \in S : TRUE IN f[x] * Product(f, S \ {x})

RECURSIVE Sum(_, _)
Sum(f, S) ==
    IF S = {} THEN 0 ELSE LET x == CHOOSE y \in S : TRUE IN f[x] + Sum(f, S \ {x})

\* pl.sum_horizontal(pl.all().is_null() / pl.all().count()) for row r of df:
\* each column contributes is_null(cell) / count(column).  The "gene" column is
\* never null, so it contributes 0.  A column without any non-null cell has
\* count 0, and a null cell of it contributes 1/0 = inf.
NullPercentage(df, r) ==
    LET C     == 1..Len(df.cols)
        cnt   == [c \in C |-> ColumnCount(df, c)]
        nullC == { c \in C : r.cells[c] = Null }
        den   == Product([c \in C |-> IF cnt[c] = 0 THEN 1 ELSE cnt[c]], C)
    IN  IF \E c \in nullC : cnt[c] = 0
        THEN [inf |-> TRUE, num |-> 1, den |-> 1]
        ELSE [inf |-> FALSE,
              num |-> Sum([c \in C |-> IF c \in nullC THEN den \div cnt[c] ELSE 0], C),
              den |-> den]

\* pl.col("Null-Percentage") <= allowed_null_percentage
Leq(np, thr) == ~np.inf /\ np.num * thr.den <= thr.num * np.den

high_frequency_genes_dataframe(dfs, thr, drop_column) ==
    LET outer_joined_df == ReduceOuter(Tail(dfs), Head(dfs))
        kept == SelectSeq(outer_joined_df.rows,
                          LAMBDA r : Leq(NullPercentage(outer_joined_df, r), thr))
    IN  IF drop_column
        THEN [cols |-> outer_joined_df.cols, rows |-> kept]
        ELSE [cols |-> outer_joined_df.cols \o <<"Null-Percentage">>,
              rows |-> [i \in 1..Len(kept) |->
                          [gene  |-> kept[i].gene,
                           cells |-> kept[i].cells
                                     \o <<NullPercentage(outer_joined_df, kept[i])>>]]]

-----------------------------------------------------------------------------------------------------------------------------------------------------
(* get_pre_processed_dataset: the tables after the transpose *)

(* After the transpose a dataframe is [columns, rows]: columns is the       *)
(* sequence of column names and a row a function from column name to cell. *)

\* The reserved column sets of adex.models.
METADATA_COLUMNS == {"GSE", "Tissue", "Method"}
DATASET_INFO_COLUMNS == {"Platform"}

Err(name) == [kind |-> "error", value |-> name]
Table(df) == [kind |-> "table", value |-> df]
None == [kind |-> "None"]
List(l) == [kind |-> "list", value |-> l]

\* df.select(names), and df[names]
SelectColumns(df, names) ==
    [columns |-> names,
     rows |-> [i \in 1..Len(df.rows) |-> [c \in Range(names) |-> df.rows[i][c]]]]

\* df.filter(mask): the rows whose entry of the boolean column `mask` is true
\* (a null entry, from a comparison with a null cell, is not true)
FilterRows(df, mask) ==
    LET idx == SelectSeq([i \in 1..Len(df.rows) |-> i], LAMBDA i : mask[i])
    IN  [columns |-> df.columns, rows |-> [k \in 1..Len(idx) |-> df.rows[idx[k]]]]

\* pl.col(c) == v, and pl.col(c).is_in(vs)
ColEq(df, c, v) == [i \in 1..Len(df.rows) |-> df.rows[i][c] # Null /\ df.rows[i][c] = v]
ColIsIn(df, c, vs) == [i \in 1..Len(df.rows) |-> df.rows[i][c] \in Range(vs)]
MaskAnd(m1, m2) == [i \in DOMAIN m1 |-> m1[i] /\ m2[i]]

\* df.drop(names): the named columns that exist are removed.  In the polars
\* releases that accept how="outer_coalesce" (0.20.x) a name that is no column
\* of df is ignored.
DropColumns(df, names) ==
    SelectColumns(df, SelectSeq(df.columns, LAMBDA c : c \notin names))

\* The name of the i-th parquet file of a condition's directory.
FileName(i) == <<"file1", "file2", "file3", "file4">>[i]

\* load_data_per_condition (lines 21-34) and the load dispatch (lines 120-124):
\* every loader that is no FileDataLoader takes the "case _" branch, which reads
\* data_loader.condition, a field of every DataLoader.
load_data_per_condition(dir) ==
    IF Len(dir) = 0 THEN Err("ValueError") ELSE List(dir)

LoadData(loader, dir) ==
    IF loader.variant = "FileDataLoader"
    THEN IF \E i \in 1..Len(dir) : FileName(i) = loader.file_name
         THEN List(<<dir[CHOOSE i \in 1..Len(dir) : FileName(i) = loader.file_name]>>)
         ELSE Err("FileNotFoundError")
    ELSE load_data_per_condition(dir)

\* Lines 132-151: the outer join of the loaded tables, the transpose that turns
\* the gene values into column names and the sample columns into rows, and the
\* cast.  Renaming to a repeated gene value raises.
JoinAndTranspose(dfs) ==
    LET joined_df == ReduceOuter(Tail(dfs), Head(dfs))
        header == GeneColumn(joined_df)
    IN  IF \E i, j \in 1..Len(header) : i # j /\ header[i] = header[j]
        THEN Err("DuplicateError")
        ELSE Table([columns |-> <<"Sample">> \o header,
                    rows |-> [k \in 1..Len(joined_df.cols) |->
                        [c \in {"Sample"} \cup Range(header) |->
                            IF c = "Sample" THEN joined_df.cols[k]
                            ELSE LET i == CHOOSE i \in 1..Len(header) : header[i] = c
                                 IN  joined_df.rows[i].cells[k]]]])

RECURSIVE SetToSeq(_)
SetToSeq(S) ==
    IF S = {} THEN <<>> ELSE LET x == CHOOSE y \in S : TRUE IN <<x>> \o SetToSeq(S \ {x})

\* The metadata CSV as read, every Sample's rows kept.
KeepDuplicateSamples(md) == { md }

\* .unique(subset=["Sample"]): the ways of keeping one row for every Sample
UniqueBySample(md) ==
    { u \in SUBSET md :
        /\ \A r \in md : \E k \in u : k.Sample = r.Sample
        /\ \A k1, k2 \in u : k1.Sample = k2.Sample => k1 = k2 }

\* Row r extended with the columns `names` of row m.
Extend(r, m, names) ==
    [c \in DOMAIN r \cup names |-> IF c \in DOMAIN r THEN r[c] ELSE m[c]]

\* Lines 156-165: inner join with the de-duplicated metadata on "Sample", then
\* inner join with datasets_info on GSE = Dataset.
MetadataJoin(tf, md, info) ==
    LET withMd ==
            Flatten([i \in 1..Len(tf.rows) |->
                LET hit == SetToSeq({ m \in md : m.Sample = tf.rows[i]["Sample"] })
                IN  [j \in 1..Len(hit) |-> Extend(tf.rows[i], hit[j], METADATA_COLUMNS)]])
        withInfo ==
            Flatten([i \in 1..Len(withMd) |->
                LET hit == SelectSeq(info, LAMBDA d : d.Dataset = withMd[i]["GSE"])
                IN  [j \in 1..Len(hit) |-> Extend(withMd[i], hit[j], DATASET_INFO_COLUMNS)]])
    IN  [columns |-> tf.columns \o <<"GSE", "Tissue", "Method", "Platform">>,
         rows |-> withInfo]

\* list(s) of a Python set s: its members in the iteration order of the set,
\* here the order in which they occur in `order`.
ListOfSet(s, order) == SelectSeq(order, LAMBDA c : c \in s)

\* The selection of the requested columns alone, the fixed columns forgotten.
KeepOnlyRequestedColumns(df, requested, order) ==
    SelectColumns(df, ListOfSet(Range(requested) \cap Range(df.columns), order))

\* _keep_only_selected_genes (lines 204-212)
_keep_only_selected_genes(df, requested, order) ==
    LET existing_columns == Range(df.columns)
        fixed_columns ==
            (({"Sample"} \cup METADATA_COLUMNS) \cup DATASET_INFO_COLUMNS) \cap existing_columns
        fixed_columns_and_genes == fixed_columns \cup Range(requested)
        common_columns_set == fixed_columns_and_genes \cap existing_columns
        common_columns ==
            (<<"Sample">> \o ListOfSet(fixed_columns \ {"Sample"}, order))
                \o ListOfSet(common_columns_set \ fixed_columns, order)
    IN  SelectColumns(df, common_columns)

\* The sample selection without its filter.
IgnoreSelectedSamples(df, requested) == df

\* _keep_only_selected_samples (lines 215-216)
_keep_only_selected_samples(df, requested) ==
    FilterRows(df, ColIsIn(df, "Sample", requested))

\* Lines 168-190: the selector-specific filter
SelectorFilter(df, loader, order) ==
    CASE loader.variant = "ConditionTissueDataLoader" ->
            FilterRows(df, ColEq(df, "Tissue", loader.tissue))
      [] loader.variant = "ConditionSequencingDataLoader" ->
            FilterRows(df, ColEq(df, "Method", loader.sequencing_technique))
      [] loader.variant = "FileDataLoader" ->
            LET g == IF loader.genes # None
                     THEN _keep_only_selected_genes(df, loader.genes.value, order)
                     ELSE df
            IN  IF loader.samples # None
                THEN _keep_only_selected_samples(g, loader.samples.value)
                ELSE g
      [] loader.variant = "ConditionSequencingTissueDataLoader" ->
            LET f == FilterRows(df, MaskAnd(ColEq(df, "Tissue", loader.tissue),
                                            ColEq(df, "Method", loader.sequencing_technique)))
            IN  IF loader.genes # None
                THEN _keep_only_selected_genes(f, loader.genes.value, order)
                ELSE f
      [] OTHER -> df

\* The zero-row test left out.
NeverEmpty(df) == FALSE

\* Line 192: transposed_fixed_w_metadata.shape[0] == 0
HasNoRows(df) == Len(df.rows) = 0

\* s.null_count() for column c
NullCount(df, c) == Cardinality({ i \in 1..Len(df.rows) : df.rows[i][c] = Null })

\* The comparison made strict.
StrictlyWithinNullPercentage(df, c, thr) == NullCount(df, c) * thr.den < thr.num * Len(df.rows)

\* (s.null_count() / height) <= allowed_null_percentage
WithinNullPercentage(df, c, thr) == NullCount(df, c) * thr.den <= thr.num * Len(df.rows)

\* Line 196: the columns whose null fraction is within the threshold; the
\* division fails on a table without rows.
PruneColumns(df, thr) ==
    IF Len(df.rows) = 0 /\ Len(df.columns) > 0
    THEN Err("ZeroDivisionError")
    ELSE Table(SelectColumns(df, SelectSeq(df.columns,
                                           LAMBDA c : WithinNullPercentage(df, c, thr))))

\* The return that ignores return_metadata.
ReturnWithoutStripping(df, flag) == df

\* Lines 198-201
StripMetadata(df, flag) ==
    IF flag THEN df
    ELSE DropColumns(DropColumns(df, METADATA_COLUMNS), DATASET_INFO_COLUMNS)

-----------------------------------------------------------------------------
(* The gene-set operations as a state machine: one call per behaviour *)

Unused == [kind |-> "unused"]
Pending == [kind |-> "pending"]

NoSelect == input = Unused /\ genes = Unused

NoPipeline ==
    /\ data_loader = Unused /\ return_metadata = FALSE /\ files = <<>>
    /\ pc = "unused" /\ data = Unused /\ transposed_fixed = Unused
    /\ datasets_info = Unused /\ metadata = Unused
    /\ joined_w_metadata = Unused /\ transposed_fixed_w_metadata = Unused

NoGenes == dataframes = <<>> /\ drop_frequencies_column = FALSE /\ call = "unused"

InitGenes ==
    /\ dataframes \in TableLists(Values)
    /\ allowed_null_percentage = [num |-> 1, den |-> 5]
    /\ drop_frequencies_column = TRUE
    /\ call = "none"
    /\ ret = Pending
    /\ NoSelect /\ NoPipeline

CallGeneIntersection ==
    /\ call = "none"
    /\ call' = "gene_intersection"
    /\ ret' = [kind |-> "set", value |-> gene_intersection(dataframes)]
    /\ UNCHANGED <<dataframes, drop_frequencies_column, allowed_null_percentage,
                   selectVars, pipeVars>>

CallCommonGenesDataframe ==
    /\ call = "none"
    /\ call' = "common_genes_dataframe"
    /\ ret' = [kind |-> "table", value |-> common_genes_dataframe(dataframes)]
    /\ UNCHANGED <<dataframes, drop_frequencies_column, allowed_null_percentage,
                   selectVars, pipeVars>>

NextGenes == CallGeneIntersection \/ CallCommonGenesDataframe

SpecGenes == InitGenes /\ [][NextGenes]_vars

InitFreq ==
    /\ dataframes \in TableLists(Values \cup {Null})
    /\ allowed_null_percentage \in Thresholds
    /\ drop_frequencies_column \in BOOLEAN
    /\ call = "none"
    /\ ret = Pending
    /\ NoSelect /\ NoPipeline

CallHighFrequencyGenesDataframe ==
    /\ call = "none"
    /\ call' = "high_frequency_genes_dataframe"
    /\ ret' = [kind  |-> "table",
               value |-> high_frequency_genes_dataframe(dataframes, allowed_null_percentage,
                                                        drop_frequencies_column)]
    /\ UNCHANGED <<dataframes, drop_frequencies_column, allowed_null_percentage,
                   selectVars, pipeVars>>

NextFreq == CallHighFrequencyGenesDataframe

SpecFreq == InitFreq /\ [][NextFreq]_vars

-----------------------------------------------------------------------------
(* get_pre_processed_dataset as a state machine: one call, step by step *)

MaxFiles == 2
MaxMetadataRows == 2
MaxInfoRows == 2

Variants ==
    { "ConditionDataLoader", "ConditionTissueDataLoader", "ConditionSequencingDataLoader",
      "ConditionSequencingTissueDataLoader", "FileDataLoader", "UnknownDataLoader" }

\* The selectors: every variant carries the fields its class declares; a field
\* the class does not declare is Absent (file_name: no file).
Absent == "absent"

Loaders ==
    { l \in [variant : Variants, tissue : {"T1", Absent},
             sequencing_technique : {"M1", Absent}, file_name : {"file1", Absent},
             genes : {None, List(<<"A", "Z">>)}, samples : {None, List(<<"S1", "S9">>)}] :
        /\ (l.tissue # Absent) <=>
              l.variant \in {"ConditionTissueDataLoader", "ConditionSequencingTissueDataLoader"}
        /\ (l.sequencing_technique # Absent) <=>
              l.variant \in {"ConditionSequencingDataLoader",
                             "ConditionSequencingTissueDataLoader"}
        /\ (l.file_name # Absent) <=> l.variant = "FileDataLoader"
        /\ (l.genes # None) =>
              l.variant \in {"ConditionSequencingTissueDataLoader", "FileDataLoader"}
        /\ (l.samples # None) => l.variant = "FileDataLoader" }

PipelineThresholds == { [num |-> 1, den |-> 5], [num |-> 1, den |-> 2] }

\* The parquet files: their "gene" column and their number of sample columns.
FileShapes ==
    { [genes |-> <<"A">>, width |-> 1], [genes |-> <<"B", "B">>, width |-> 1],
      [genes |-> <<"A", "B">>, width |-> 2] }

FileOf(shape, first) ==
    [cols |-> [k \in 1..shape.width |-> SampleNames[first + k - 1]],
     rows |-> [i \in 1..Len(shape.genes) |->
                 [gene |-> shape.genes[i], cells |-> [k \in 1..shape.width |-> "1.0"]]]]

\* The files of the shapes sh, their sample columns named consecutively from `first`.
RECURSIVE FilesOf(_, _)
FilesOf(sh, first) ==
    IF sh = <<>> THEN <<>>
    ELSE <<FileOf(Head(sh), first)>> \o FilesOf(Tail(sh), first + Head(sh).width)

\* The listings of {data_path}/{condition.name}.
Directories == { FilesOf(sh, 1) : sh \in SeqsUpTo(FileShapes, MaxFiles) }

\* The rows of the metadata CSV: per Sample, a tissue and a method that match
\* the selector's or differ from them, or a missing tissue.
MetadataRows ==
    { r \in [Sample : {"S1", "S2"}, GSE : {"D1"}, Tissue : {"T1", "T2", Null},
             Method : {"M1", "M2"}] : r.Method = "M2" => r.Tissue = "T1" }

MetadataFiles == { m \in SUBSET MetadataRows : Cardinality(m) <= MaxMetadataRows }

DatasetInfoFiles == SeqsUpTo([Dataset : {"D1"}, Platform : {"P"}], MaxInfoRows)

\* The iteration orders of a Python set of column names that are modelled.
ColumnUniverse == <<"Sample", "GSE", "Tissue", "Method", "Platform", "A", "B", "Z">>
Reverse(q) == [i \in 1..Len(q) |-> q[Len(q) + 1 - i]]
SetOrders == { ColumnUniverse, Reverse(ColumnUniverse) }

InitPipeline ==
    /\ data_loader \in Loaders
    /\ return_metadata \in BOOLEAN
    /\ allowed_null_percentage \in PipelineThresholds
    /\ files \in Directories
    /\ pc = "load"
    /\ data = Unused /\ transposed_fixed = Unused
    /\ datasets_info = Unused /\ metadata = Unused
    /\ joined_w_metadata = Unused /\ transposed_fixed_w_metadata = Unused
    /\ ret = Pending
    /\ NoSelect /\ NoGenes

pipeInputs == <<data_loader, return_metadata, allowed_null_percentage, files>>

\* Lines 120-124
Load ==
    /\ pc = "load"
    /\ LET loaded == LoadData(data_loader, files)
       IN  IF loaded.kind = "error"
           THEN pc' = "done" /\ ret' = loaded /\ data' = data
           ELSE pc' = "join" /\ ret' = ret /\ data' = loaded
    /\ UNCHANGED <<pipeInputs, transposed_fixed, datasets_info, metadata,
                   joined_w_metadata, transposed_fixed_w_metadata, geneVars, selectVars>>

\* Lines 132-151
JoinTranspose ==
    /\ pc = "join"
    /\ LET t == JoinAndTranspose(data.value)
       IN  IF t.kind = "error"
           THEN pc' = "done" /\ ret' = t /\ transposed_fixed' = transposed_fixed
           ELSE pc' = "metadata" /\ ret' = ret /\ transposed_fixed' = t.value
    /\ UNCHANGED <<pipeInputs, data, datasets_info, metadata,
                   joined_w_metadata, transposed_fixed_w_metadata, geneVars, selectVars>>

\* Lines 154-165: both CSV files are read here
JoinMetadata ==
    /\ pc = "metadata"
    /\ \E info \in DatasetInfoFiles, md \in MetadataFiles :
         \E u \in UniqueBySample(md) :
            /\ datasets_info' = info
            /\ metadata' = md
            /\ joined_w_metadata' = MetadataJoin(transposed_fixed, u, info)
    /\ transposed_fixed_w_metadata' = joined_w_metadata'
    /\ pc' = "filter"
    /\ UNCHANGED <<pipeInputs, data, transposed_fixed, ret, geneVars, selectVars>>

\* Lines 168-190
ExtraFiltering ==
    /\ pc = "filter"
    /\ \E order \in SetOrders :
         transposed_fixed_w_metadata' =
            SelectorFilter(transposed_fixed_w_metadata, data_loader, order)
    /\ pc' = "prune"
    /\ UNCHANGED <<pipeInputs, data, transposed_fixed, datasets_info, metadata,
                   joined_w_metadata, ret, geneVars, selectVars>>

\* Lines 192-201
PruneAndReturn ==
    /\ pc = "prune"
    /\ IF HasNoRows(transposed_fixed_w_metadata)
       THEN ret' = None /\ transposed_fixed_w_metadata' = transposed_fixed_w_metadata
       ELSE LET pruned == PruneColumns(transposed_fixed_w_metadata, allowed_null_percentage)
            IN  IF pruned.kind = "error"
                THEN ret' = pruned /\ transposed_fixed_w_metadata' = transposed_fixed_w_metadata
                ELSE /\ transposed_fixed_w_metadata' = pruned.value
                     /\ ret' = Table(StripMetadata(pruned.value, return_metadata))
    /\ pc' = "done"
    /\ UNCHANGED <<pipeInputs, data, transposed_fixed, datasets_info, metadata,
                   joined_w_metadata, geneVars, selectVars>>

NextPipeline == Load \/ JoinTranspose \/ JoinMetadata \/ ExtraFiltering \/ PruneAndReturn

SpecPipeline == InitPipeline /\ [][NextPipeline]_vars

-----------------------------------------------------------------------------
(* _keep_only_selected_genes as a state machine: one call per behaviour *)

MaxRequested == 2

\* The dataframes with a "Sample" column, some of the other columns and one row.
SelectInputs ==
    { [columns |-> ListOfSet(S \cup {"Sample"}, o),
       rows |-> << [c \in S \cup {"Sample"} |-> IF c = "Sample" THEN "S1" ELSE "1.0"] >>] :
        S \in SUBSET {"GSE", "Tissue", "Method", "Platform", "A", "B"}, o \in SetOrders }

RequestedGenes == SeqsUpTo({"A", "B", "Z", "Sample", "Tissue"}, MaxRequested)

InitSelect ==
    /\ input \in SelectInputs
    /\ genes \in RequestedGenes
    /\ dataframes = <<>> /\ drop_frequencies_column = FALSE /\ call = "none"
    /\ allowed_null_percentage = [num |-> 1, den |-> 5]
    /\ ret = Pending
    /\ NoPipeline

CallKeepOnlySelectedGenes ==
    /\ call = "none"
    /\ call' = "_keep_only_selected_genes"
    /\ \E order \in SetOrders :
         ret' = Table(_keep_only_selected_genes(input, genes, order))
    /\ UNCHANGED <<dataframes, drop_frequencies_column, allowed_null_percentage,
                   selectVars, pipeVars>>

NextSelect == CallKeepOnlySelectedGenes

SpecSelect == InitSelect /\ [][NextSelect]_vars

-----------------------------------------------------------------------------
(* Properties of the gene-set operations and of the frequency filter *)

\* The genes that occur in the "gene" column of every table of dfs.
GenesInEveryTable(dfs) ==
    { g \in Genes : \A i \in 1..Len(dfs) : g \in Range(GeneColumn(dfs[i])) }

MinRowCount(dfs) ==
    CHOOSE n \in { Len(dfs[i].rows) : i \in 1..Len(dfs) } :
        \A i \in 1..Len(dfs) : n <= Len(dfs[i].rows)

UniqueGenes(df) ==
    \A i, j \in 1..Len(df.rows) : df.rows[i].gene = df.rows[j].gene => i = j

\* C1: gene_intersection returns exactly the set of genes that occur in the
\* "gene" column of every table of a non-empty list, also when the running
\* intersection becomes empty before the last table.
C1_IntersectionExact ==
    call = "gene_intersection" => ret.value = GenesInEveryTable(dataframes)

\* C6 as stated: the table returned by common_genes_dataframe has at most as
\* many rows as the smallest input table, and only genes of the intersection.
C6_RowCountAtMostMin ==
    call = "common_genes_dataframe" =>
        /\ Len(ret.value.rows) <= MinRowCount(dataframes)
        /\ Range(GeneColumn(ret.value)) \subseteq GenesInEveryTable(dataframes)

\* C6 amended: every gene of the table returned by common_genes_dataframe is
\* in the intersection of the inputs' gene columns, and when no input table
\* repeats a gene in its "gene" column the row count is at most the minimum
\* row count of the inputs.
C6_RowCountAtMostMinUniqueGenes ==
    call = "common_genes_dataframe" =>
        /\ Range(GeneColumn(ret.value)) \subseteq GenesInEveryTable(dataframes)
        /\ (\A i \in 1..Len(dataframes) : UniqueGenes(dataframes[i]))
              => Len(ret.value.rows) <= MinRowCount(dataframes)

\* Three tables with unique genes and different row counts, joined to one row.
C6_Witness ==
    /\ call = "common_genes_dataframe"
    /\ Len(dataframes) = 3
    /\ \A i \in 1..3 : UniqueGenes(dataframes[i])
    /\ Len(dataframes[1].rows) = 2
    /\ Len(dataframes[2].rows) = 1
    /\ Len(dataframes[3].rows) = 2
    /\ Len(ret.value.rows) = 1

\* The fraction of null cells of row r over the non-key columns.
NullCellFraction(df, r) ==
    [inf |-> FALSE,
     num |-> Cardinality({ c \in 1..Len(df.cols) : r.cells[c] = Null }),
     den |-> Len(df.cols)]

\* C3: high_frequency_genes_dataframe retains exactly the rows of the
\* coalescing outer join whose fraction of null cells over the non-key
\* columns is <= allowed_null_percentage.
C3_RetainsByNullCellFraction ==
    (call = "high_frequency_genes_dataframe" /\ drop_frequencies_column) =>
        LET outer == ReduceOuter(Tail(dataframes), Head(dataframes))
        IN  ret.value.rows = SelectSeq(outer.rows,
                LAMBDA r : Leq(NullCellFraction(outer, r), allowed_null_percentage))

-----------------------------------------------------------------------------
(* Properties of _keep_only_selected_genes *)

ReservedColumns == METADATA_COLUMNS \cup DATASET_INFO_COLUMNS

NoRepeats(q) == \A i, j \in 1..Len(q) : q[i] = q[j] => i = j

\* C10: the output of _keep_only_selected_genes has "Sample" as its first
\* column, holds every reserved column of the input, holds a requested gene
\* only if it is a column of the input, holds no non-reserved column that was
\* not requested, and lists no column twice.
C10_SelectedGenesColumns ==
    call = "_keep_only_selected_genes" =>
        LET out == ret.value.columns
        IN  /\ Len(out) >= 1 /\ out[1] = "Sample"
            /\ ReservedColumns \cap Range(input.columns) \subseteq Range(out)
            /\ Range(out) \subseteq Range(input.columns)
            /\ \A c \in Range(out) \ (ReservedColumns \cup {"Sample"}) : c \in Range(genes)
            /\ NoRepeats(out)

\* A call on an input whose "Sample" column is not the first, with a reserved
\* column and two gene columns, asking for a gene it has and a gene it lacks.
C10_Witness ==
    /\ call = "_keep_only_selected_genes"
    /\ input.columns[1] # "Sample"
    /\ {"Tissue", "A", "B"} \subseteq Range(input.columns)
    /\ genes = <<"A", "Z">>
    /\ Range(ret.value.columns) \cap {"A", "B", "Z", "Tissue"} = {"A", "Tissue"}

-----------------------------------------------------------------------------
(* Properties of get_pre_processed_dataset *)

IsTable(t) == t # Unused

\* C2: a data_loader of an unrecognised variant makes the call fail with a
\* configuration error: no data is loaded for it and nothing is filtered or
\* returned for it.
C2_UnknownVariantFails ==
    data_loader # Unused /\ data_loader.variant = "UnknownDataLoader" =>
        /\ data = Unused
        /\ ret.kind \notin {"table", "None"}

\* C4: when the table has no rows after the metadata joins and the selector
\* filter, the call returns None; it returns no table without rows and does
\* not raise.
C4_EmptyResultIsNone ==
    pc = "done" /\ IsTable(transposed_fixed_w_metadata) =>
        /\ Len(transposed_fixed_w_metadata.rows) = 0 => ret = None
        /\ ret.kind = "table" => Len(ret.value.rows) > 0
        /\ ret.kind # "error"

\* The tissue filter has removed every row of a non-empty joined table.
C4_Witness ==
    /\ pc = "done"
    /\ data_loader.variant = "ConditionTissueDataLoader"
    /\ IsTable(joined_w_metadata) /\ Len(joined_w_metadata.rows) = 2
    /\ Len(transposed_fixed_w_metadata.rows) = 0
    /\ ret = None

\* C5: with return_metadata = False and a non-empty filtered table, the call
\* returns a table none of whose columns is in METADATA_COLUMNS or in
\* DATASET_INFO_COLUMNS.
C5_NoReservedColumns ==
    (/\ pc = "done" /\ ~return_metadata
     /\ IsTable(transposed_fixed_w_metadata) /\ Len(transposed_fixed_w_metadata.rows) > 0) =>
        /\ ret.kind = "table"
        /\ Range(ret.value.columns) \cap ReservedColumns = {}

\* The pruning step has removed the reserved column "Tissue" before the
\* stripping step runs on the remaining reserved columns.
C5_Witness ==
    /\ pc = "done" /\ ~return_metadata
    /\ ret.kind = "table"
    /\ "Tissue" \notin Range(transposed_fixed_w_metadata.columns)
    /\ "GSE" \in Range(transposed_fixed_w_metadata.columns)
    /\ "A" \in Range(ret.value.columns)

SamplesOnce(t) == \A i, j \in 1..Len(t.rows) : t.rows[i]["Sample"] = t.rows[j]["Sample"] => i = j

\* C7 as stated: the metadata joins do not raise and no Sample occurs in more
\* than one row of the joined, the filtered or the returned table.
C7_OneRowPerSample ==
    IsTable(joined_w_metadata) =>
        /\ ret.kind # "error"
        /\ SamplesOnce(joined_w_metadata)
        /\ SamplesOnce(transposed_fixed_w_metadata)
        /\ ret.kind = "table" => SamplesOnce(ret.value)

\* C7 amended: the metadata joins do not raise, and when the dataset-info
\* table has at most one row for each Dataset value no Sample occurs in more
\* than one row of the joined, the filtered or the returned table.
C7_OneRowPerSampleUniqueDatasets ==
    IsTable(joined_w_metadata) =>
        /\ ret.kind # "error"
        /\ NoRepeats([i \in 1..Len(datasets_info) |-> datasets_info[i].Dataset]) =>
              /\ SamplesOnce(joined_w_metadata)
              /\ SamplesOnce(transposed_fixed_w_metadata)
              /\ ret.kind = "table" => SamplesOnce(ret.value)

\* Two metadata rows share Sample "S1" and differ in Tissue; "S1" is in the
\* returned table, once.
C7_Witness ==
    /\ pc = "done" /\ ret.kind = "table"
    /\ \E m1, m2 \in metadata : m1.Sample = "S1" /\ m2.Sample = "S1" /\ m1.Tissue # m2.Tissue
    /\ Len(datasets_info) = 1
    /\ Cardinality({ i \in 1..Len(ret.value.rows) : ret.value.rows[i]["Sample"] = "S1" }) = 1

\* The rows the selector of loader keeps, as the claim lists them.
KeptBySelector(loader, r) ==
    CASE loader.variant = "ConditionDataLoader" -> TRUE
      [] loader.variant = "ConditionTissueDataLoader" -> r["Tissue"] = loader.tissue
      [] loader.variant = "ConditionSequencingDataLoader" ->
            r["Method"] = loader.sequencing_technique
      [] loader.variant = "ConditionSequencingTissueDataLoader" ->
            r["Tissue"] = loader.tissue /\ r["Method"] = loader.sequencing_technique
      [] loader.variant = "FileDataLoader" ->
            loader.samples = None \/ r["Sample"] \in Range(loader.samples.value)
      [] OTHER -> TRUE

\* C8: the rows the selector-specific filter keeps are exactly the rows of the
\* metadata-joined table that the selector names (all of them, those of the
\* tissue, of the method, of both, or those of the sample allow-list).
C8_FilterKeepsExactly ==
    pc = "prune" =>
        LET expected == SelectSeq(joined_w_metadata.rows,
                                  LAMBDA r : KeptBySelector(data_loader, r))
            cols == Range(transposed_fixed_w_metadata.columns)
        IN  transposed_fixed_w_metadata.rows =
                [i \in 1..Len(expected) |-> [c \in cols |-> expected[i][c]]]

\* A file selector with a sample allow-list naming "S1" and a sample that does
\* not exist: of the joined rows "S1" and "S2", "S1" alone is kept.
C8_Witness ==
    /\ pc = "prune"
    /\ data_loader.variant = "FileDataLoader" /\ data_loader.samples # None
    /\ Len(joined_w_metadata.rows) = 2
    /\ Len(transposed_fixed_w_metadata.rows) = 1
    /\ transposed_fixed_w_metadata.rows[1]["Sample"] = "S1"

\* The null fraction of column c over the rows of t is at most thr.
NullFractionAtMost(t, c, thr) ==
    Cardinality({ i \in 1..Len(t.rows) : t.rows[i][c] = Null }) * thr.den
        <= thr.num * Len(t.rows)

====
